---- MODULE Spec2Model ----
(***************************************************************************)
(* The treasury-output store of the UTXO manager                           *)
(* (pkg/model/utxo/treasury_output.go), the database core plugin           *)
(* (core/database/core.go) and the node-health predicate.                  *)
(***************************************************************************)
EXTENDS Integers, Sequences, FiniteSets, TLC

(***************************************************************************)
(* Bounds of the model.                                                    *)
(***************************************************************************)
\* milestone ids are MilestoneIDOf(1) .. MilestoneIDOf(MaxMilestone)
MaxMilestone == 2
\* the option maxResultCount ranges over -1 .. MaxResultCount
MaxResultCount == 2
\* the peers of the known relation that can be connected
MaxPeers == 2
\* the seconds past maxAllowedMilestoneAge the clock runs to
MaxSkew == 1
\* the goroutines that call RunGarbageCollection
MaxGCCallers == 2
\* the calls of RunGarbageCollection made in all
MaxGCCalls == 2

(***************************************************************************)
(* Program constants.                                                      *)
(***************************************************************************)
TreasuryOutputSpentPrefix == 1
TreasuryOutputUnspentPrefix == 0
\* the namespace byte of treasury outputs in the UTXO store
UTXOStoreKeyPrefixTreasuryOutput == 6
\* the namespace byte of regular outputs, another tenant of the same store
UTXOStoreKeyPrefixOutput == 1
\* iotago.MilestoneIDLength
MilestoneIDLength == 32
\* the width of a marshalled uint64, marshalutil.New(8)
Uint64Size == 8
\* one byte holds 0 .. ByteBase - 1
ByteBase == 256

NoError == "nil"
\* marshalutil: a read past the end of the buffer
ErrDecode == "tried to read too many bytes"
\* any error of the key-value store itself
ErrStoreIO == "store i/o error"
ErrNoTreasuryOutput == "invalid treasury state: no treasury output exists"
ErrMoreThanOneTreasuryOutput == "invalid treasury state: more than one unspent treasury output exists"
\* time.Minute, in seconds
Minute == 60
\* maxAllowedMilestoneAge = time.Minute * 5
maxAllowedMilestoneAge == Minute * 5
\* storage.ErrNothingToCleanUp
ErrNothingToCleanUp == "nothing to clean up in the databases"
\* any other error of CleanupDatabases, Flush or Close
ErrCleanup == "cleanup failed"
ErrFlush == "flush failed"
ErrClose == "close failed"
\* a nil *TreasuryOutput
Nil == [nil |-> TRUE]

(***************************************************************************)
(* The inputs the operations are called with.                              *)
(***************************************************************************)
\* a full-length milestone id; ids differ in their first and last bytes
MilestoneIDOf(i) == [j \in 1..MilestoneIDLength |-> IF j = 1 \/ j = MilestoneIDLength THEN i ELSE 0]

MilestoneIDs == {MilestoneIDOf(i) : i \in 1..MaxMilestone}

\* 1000 = 0x03E8 and 16909060 = 0x01020304: several non-zero, non-palindromic bytes
Amounts == {1000, 16909060}

TreasuryOutput == [MilestoneID : MilestoneIDs, Amount : Amounts, Spent : BOOLEAN]

(***************************************************************************)
(* marshalutil: the byte-level codec.                                      *)
(***************************************************************************)
RECURSIVE LittleEndian(_, _)
\* the n low bytes of a, least significant first
LittleEndian(a, n) == IF n = 0 THEN <<>> ELSE <<a % ByteBase>> \o LittleEndian(a \div ByteBase, n - 1)

RECURSIVE FromLittleEndian(_)
FromLittleEndian(bytes) == IF bytes = <<>> THEN 0 ELSE Head(bytes) + ByteBase * FromLittleEndian(Tail(bytes))

WriteBool(b) == IF b THEN 1 ELSE 0

WriteUint64(a) == LittleEndian(a, Uint64Size)

\* ReadUint64 on the bytes of a buffer: an error when fewer than 8 are left
ReadUint64(bytes) == IF Len(bytes) < Uint64Size THEN [err |-> ErrDecode, val |-> 0] ELSE [err |-> NoError, val |-> FromLittleEndian(SubSeq(bytes, 1, Uint64Size))]

(***************************************************************************)
(* TreasuryOutput: key, value, load.                                       *)
(***************************************************************************)
kvStorableKeyIgnoringSpent(t) == <<UTXOStoreKeyPrefixTreasuryOutput, WriteBool(FALSE)>> \o t.MilestoneID

kvStorableKey(t) == <<UTXOStoreKeyPrefixTreasuryOutput, WriteBool(t.Spent)>> \o t.MilestoneID

kvStorableValue(t) == WriteUint64(t.Amount)

LoadResult(e, o) == [err |-> e, out |-> o]

\* kvStorableLoad without its line 72 (t.Spent = spent): the flag keeps its zero value
kvStorableLoadSpentNotSet(key, value) ==
    IF Len(key) < 2 + MilestoneIDLength \/ Len(value) < Uint64Size THEN LoadResult(ErrDecode, Nil)
    ELSE LoadResult(NoError, [MilestoneID |-> SubSeq(key, 3, 2 + MilestoneIDLength), Amount |-> ReadUint64(value).val, Spent |-> FALSE])

\* kvStorableLoad: skip the prefix byte, read the spent flag, the milestone id
\* and the amount; each read fails when the buffer is too short
kvStorableLoad(key, value) ==
    IF Len(key) < 1 THEN LoadResult(ErrDecode, Nil)
    ELSE IF Len(key) < 2 THEN LoadResult(ErrDecode, Nil)
    ELSE IF Len(key) < 2 + MilestoneIDLength THEN LoadResult(ErrDecode, Nil)
    ELSE IF ReadUint64(value).err # NoError THEN LoadResult(ReadUint64(value).err, Nil)
    ELSE LoadResult(NoError, [MilestoneID |-> SubSeq(key, 3, 2 + MilestoneIDLength), Amount |-> ReadUint64(value).val, Spent |-> (key[2] = 1)])

(***************************************************************************)
(* The key-value store (kvstore.KVStore): a map from byte keys to byte      *)
(* values, iterated by prefix in byte-wise key order.                      *)
(***************************************************************************)
StoreSet(st, key, value) == [k \in (DOMAIN st) \cup {key} |-> IF k = key THEN value ELSE st[k]]

StoreDelete(st, key) == [k \in (DOMAIN st) \ {key} |-> st[k]]

HasPrefix(key, prefix) == Len(key) >= Len(prefix) /\ SubSeq(key, 1, Len(prefix)) = prefix

\* byte-wise lexicographic order, a proper prefix first
LexLess(a, b) ==
    \E i \in 1..Len(b) :
        /\ i <= Len(a) + 1
        /\ \A j \in 1..(i - 1) : a[j] = b[j]
        /\ IF i = Len(a) + 1 THEN TRUE ELSE a[i] < b[i]

RECURSIVE SortedKeys(_)
SortedKeys(S) ==
    IF S = {} THEN <<>>
    ELSE LET m == CHOOSE x \in S : \A y \in S \ {x} : LexLess(x, y)
         IN <<m>> \o SortedKeys(S \ {m})

\* the keys Iterate(prefix, ...) visits, in the order it visits them
IterateKeys(st, prefix) == SortedKeys({k \in DOMAIN st : HasPrefix(k, prefix)})

\* kvstore.BatchedMutations: Set and Delete are queued and touch the store
\* only when the batch is committed. sb is the pair (store, batch).
mutationsDeleteUnbatched(sb, key) == [store |-> StoreDelete(sb.store, key), batch |-> sb.batch]

mutationsDelete(sb, key) == [store |-> sb.store, batch |-> Append(sb.batch, [op |-> "delete", key |-> key, value |-> <<>>])]

mutationsSet(sb, key, value) == [store |-> sb.store, batch |-> Append(sb.batch, [op |-> "set", key |-> key, value |-> value])]

RECURSIVE ApplyBatch(_, _)
ApplyBatch(st, batch) ==
    IF batch = <<>> THEN st
    ELSE LET m == Head(batch)
         IN ApplyBatch(IF m.op = "set" THEN StoreSet(st, m.key, m.value) ELSE StoreDelete(st, m.key), Tail(batch))

\* Commit: the queued mutations take effect on the store in one step
mutationsCommit(sb) == [store |-> ApplyBatch(sb.store, sb.batch), batch |-> <<>>]

\* u.utxoStorage.Batched(): a fresh, empty batch on the store
Batched(st) == [store |-> st, batch |-> <<>>]

(***************************************************************************)
(* The treasury operations on a batch (treasury_output.go, lines 77-107).  *)
(* In the kvstore's batched mutations Set and Delete only queue and return *)
(* nil, so the early returns on their errors are never taken.              *)
(***************************************************************************)
storeTreasuryOutput(output, sb) == mutationsSet(sb, kvStorableKey(output), kvStorableValue(output))

deleteTreasuryOutput(output, sb) == mutationsDelete(sb, kvStorableKey(output))

\* markTreasuryOutputAsSpent without its line 90: the key of the output as passed is deleted
markSpentDeleteAsPassed(output, sb) == mutationsDelete(sb, kvStorableKey(output))

\* markTreasuryOutputAsSpent without its line 94: the unspent key is set again
markSpentSetFlagNotSet(output, sb) == mutationsSet(sb, kvStorableKey([output EXCEPT !.Spent = FALSE]), kvStorableValue(output))

\* lines 89-91: the copy with Spent = false names the key to delete
markSpentDelete(output, sb) == mutationsDelete(sb, kvStorableKey([output EXCEPT !.Spent = FALSE]))

\* lines 94-95: the copy with Spent = true is set
markSpentSet(output, sb) == mutationsSet(sb, kvStorableKey([output EXCEPT !.Spent = TRUE]), kvStorableValue([output EXCEPT !.Spent = TRUE]))

markTreasuryOutputAsSpent(output, sb) == markSpentSet(output, markSpentDelete(output, sb))

\* markTreasuryOutputAsUnspent without its Delete of the spent key
markUnspentDeleteOmitted(output, sb) == sb

\* markTreasuryOutputAsUnspent setting the key only when the spent record was stored
markUnspentSetIfSpentStored(output, sb) ==
    IF kvStorableKey([output EXCEPT !.Spent = TRUE]) \in DOMAIN sb.store
    THEN mutationsSet(sb, kvStorableKey([output EXCEPT !.Spent = FALSE]), kvStorableValue([output EXCEPT !.Spent = FALSE]))
    ELSE sb

\* lines 88 and 99: the operations work on outputCopy; this is the caller's
\* output after the call
CallerOutputAfterMark(output) == output

markUnspentDelete(output, sb) == mutationsDelete(sb, kvStorableKey([output EXCEPT !.Spent = TRUE]))

markUnspentSet(output, sb) == mutationsSet(sb, kvStorableKey([output EXCEPT !.Spent = FALSE]), kvStorableValue([output EXCEPT !.Spent = FALSE]))

markTreasuryOutputAsUnspent(output, sb) == markUnspentSet(output, markUnspentDelete(output, sb))

(***************************************************************************)
(* The queries (treasury_output.go, lines 145-242).                        *)
(***************************************************************************)
UnspentPrefix == <<UTXOStoreKeyPrefixTreasuryOutput, TreasuryOutputUnspentPrefix>>

\* the spent iteration given the prefix of the namespace alone
SpentPrefixNamespaceOnly == <<UTXOStoreKeyPrefixTreasuryOutput>>

SpentPrefix == <<UTXOStoreKeyPrefixTreasuryOutput, TreasuryOutputSpentPrefix>>

TreasuryPrefix == <<UTXOStoreKeyPrefixTreasuryOutput>>

\* the state of the callback's captured variables
LoopState(i, innerErr, output, delivered) == [i |-> i, innerErr |-> innerErr, output |-> output, delivered |-> delivered]

RECURSIVE UnspentLoop(_, _, _)
\* lines 150-158: count, decode, stop at a decode error
UnspentLoop(st, keys, acc) ==
    IF keys = <<>> THEN acc
    ELSE LET ld == kvStorableLoad(Head(keys), st[Head(keys)])
         IN IF ld.err # NoError
            THEN LoopState(acc.i + 1, ld.err, ld.out, acc.delivered)
            ELSE UnspentLoop(st, Tail(keys), LoopState(acc.i + 1, NoError, ld.out, Append(acc.delivered, ld.out)))

QueryResult(ret, err, delivered) == [ret |-> ret, err |-> err, delivered |-> delivered]

\* UnspentTreasuryOutput without the case i > 1: the last record decoded is returned
UnspentTreasuryOutputOnLastOfSeveral(st, ioErr) ==
    LET acc == UnspentLoop(st, IterateKeys(st, UnspentPrefix), LoopState(0, NoError, Nil, <<>>))
    IN IF ioErr THEN QueryResult(Nil, ErrStoreIO, <<>>)
       ELSE IF acc.innerErr # NoError THEN QueryResult(Nil, acc.innerErr, <<>>)
       ELSE IF acc.i = 0 THEN QueryResult(Nil, ErrNoTreasuryOutput, <<>>)
       ELSE QueryResult(acc.output, NoError, <<>>)

\* UnspentTreasuryOutput on the store st; ioErr: Iterate itself fails
UnspentTreasuryOutputOn(st, ioErr) ==
    LET acc == UnspentLoop(st, IterateKeys(st, UnspentPrefix), LoopState(0, NoError, Nil, <<>>))
    IN IF ioErr THEN QueryResult(Nil, ErrStoreIO, <<>>)
       ELSE IF acc.innerErr # NoError THEN QueryResult(Nil, acc.innerErr, <<>>)
       ELSE IF acc.i > 1 THEN QueryResult(Nil, ErrMoreThanOneTreasuryOutput, <<>>)
       ELSE IF acc.i = 0 THEN QueryResult(Nil, ErrNoTreasuryOutput, <<>>)
       ELSE QueryResult(acc.output, NoError, <<>>)

\* the consumer: returns false on its stop-th call, true otherwise (stop = 0: always true)
Consumer(stop, calls) == calls # stop

RECURSIVE ForEachLoopSkipsBadRecord(_, _, _, _, _)
\* the callback returning true at a decode error: the bad record is skipped
ForEachLoopSkipsBadRecord(st, keys, maxResultCount, stop, acc) ==
    IF keys = <<>> THEN acc
    ELSE IF (maxResultCount > 0) /\ (acc.i >= maxResultCount) THEN acc
    ELSE LET ld == kvStorableLoad(Head(keys), st[Head(keys)])
         IN IF ld.err # NoError
            THEN ForEachLoopSkipsBadRecord(st, Tail(keys), maxResultCount, stop, LoopState(acc.i + 1, NoError, ld.out, acc.delivered))
            ELSE IF Consumer(stop, Len(acc.delivered) + 1)
                 THEN ForEachLoopSkipsBadRecord(st, Tail(keys), maxResultCount, stop, LoopState(acc.i + 1, NoError, ld.out, Append(acc.delivered, ld.out)))
                 ELSE LoopState(acc.i + 1, NoError, ld.out, Append(acc.delivered, ld.out))

RECURSIVE ForEachLoopBoundOffByOne(_, _, _, _, _)
\* the bound tested with > instead of >=: one record too many
ForEachLoopBoundOffByOne(st, keys, maxResultCount, stop, acc) ==
    IF keys = <<>> THEN acc
    ELSE IF (maxResultCount > 0) /\ (acc.i > maxResultCount) THEN acc
    ELSE LET ld == kvStorableLoad(Head(keys), st[Head(keys)])
         IN IF ld.err # NoError
            THEN LoopState(acc.i + 1, ld.err, ld.out, acc.delivered)
            ELSE IF Consumer(stop, Len(acc.delivered) + 1)
                 THEN ForEachLoopBoundOffByOne(st, Tail(keys), maxResultCount, stop, LoopState(acc.i + 1, NoError, ld.out, Append(acc.delivered, ld.out)))
                 ELSE LoopState(acc.i + 1, NoError, ld.out, Append(acc.delivered, ld.out))

RECURSIVE ForEachLoop(_, _, _, _, _)
\* lines 189-204: the bound, the count, the decode, the consumer
ForEachLoop(st, keys, maxResultCount, stop, acc) ==
    IF keys = <<>> THEN acc
    ELSE IF (maxResultCount > 0) /\ (acc.i >= maxResultCount) THEN acc
    ELSE LET ld == kvStorableLoad(Head(keys), st[Head(keys)])
         IN IF ld.err # NoError
            THEN LoopState(acc.i + 1, ld.err, ld.out, acc.delivered)
            ELSE IF Consumer(stop, Len(acc.delivered) + 1)
                 THEN ForEachLoop(st, Tail(keys), maxResultCount, stop, LoopState(acc.i + 1, NoError, ld.out, Append(acc.delivered, ld.out)))
                 ELSE LoopState(acc.i + 1, NoError, ld.out, Append(acc.delivered, ld.out))

\* ForEachTreasuryOutput (prefix = TreasuryPrefix) and ForEachSpentTreasuryOutput
\* (prefix = SpentPrefix): what the consumer received, and the error returned
ForEachOn(st, prefix, maxResultCount, stop, ioErr) ==
    LET acc == ForEachLoop(st, IterateKeys(st, prefix), maxResultCount, stop, LoopState(0, NoError, Nil, <<>>))
    IN IF ioErr THEN QueryResult(Nil, ErrStoreIO, <<>>)
       ELSE QueryResult(Nil, acc.innerErr, acc.delivered)

(***************************************************************************)
(* State.                                                                  *)
(***************************************************************************)
VARIABLES
    store,          \* u.utxoStorage: key -> value
    last,           \* the last call made on the manager and what it returned
    mutations,      \* the mutations queued in the batch in flight
    wPc,            \* where the batch writer is
    wOut,           \* the transition the batch writer applies
    utxoLock,       \* the ledger read/write lock
    rdPc,           \* where the iterating reader is
    rdOpt,          \* the reader's call: prefix and options
    rdCursor,       \* the last key the reader's iteration visited
    rdAcc,          \* the reader's callback variables
    rdDirty         \* "clean"; "pending": a write took effect on the store after the
                    \* reader, under the read lock, was handed its first record;
                    \* "between": and the reader was handed another record after it

VARIABLES
    cfgPc,                  \* the plugin: "start", "provided", "configured" or "panicked"
    engine,                 \* the database engine configured
    shutdownSignal,         \* the daemon's shutdown signal has been given
    wkPc,                   \* where the "Close database" worker is
    closeResult,            \* what closeDatabases returned
    dbLog,                  \* the calls made on the storage, the store and the daemon, in order
    supportsCleanup,        \* deps.Storage.DatabaseSupportsCleanup()
    gcPc,                   \* where each caller of RunGarbageCollection is
    gcCalls,                \* the calls of RunGarbageCollection made so far
    garbageCollectionLock,  \* the caller holding the mutex, or 0
    gcTimes,                \* each caller's local variables start, end and err
    events,                 \* the DatabaseCleanup events triggered, in order
    clock                   \* what time.Now() returns next

VARIABLES
    nodeSynced,             \* deps.Tangle.IsNodeSyncedWithThreshold()
    connectedCount,         \* deps.Manager.ConnectedCount(p2p.PeerRelationKnown)
    latestMilestone,        \* the cached latest milestone: whether there is one, its
                            \* Timestamp and the references held on the cached object
    now,                    \* the wall clock, in seconds
    health                  \* the last call of IsNodeHealthy: what it read and returned

ledgerVars == <<store, last>>

healthVars == <<nodeSynced, connectedCount, latestMilestone, now, health>>

concVars == <<mutations, wPc, wOut, utxoLock, rdPc, rdOpt, rdCursor, rdAcc, rdDirty>>

dbVars == <<cfgPc, engine, shutdownSignal, wkPc, closeResult, dbLog, supportsCleanup, gcPc, gcCalls, garbageCollectionLock, gcTimes, events, clock>>

vars == <<store, last, mutations, wPc, wOut, utxoLock, rdPc, rdOpt, rdCursor, rdAcc, rdDirty, cfgPc, engine, shutdownSignal, wkPc, closeResult, dbLog, supportsCleanup, gcPc, gcCalls, garbageCollectionLock, gcTimes, events, clock, nodeSynced, connectedCount, latestMilestone, now, health>>

\* a record of the output namespace, which shares the store with the treasury
ForeignKey == <<UTXOStoreKeyPrefixOutput>> \o MilestoneIDOf(1)

EmptyStore == [k \in {ForeignKey} |-> <<>>]

\* the treasury keys of one milestone id
KeyOf(ms, spent) == kvStorableKey([MilestoneID |-> ms, Amount |-> 0, Spent |-> spent])

\* what the store holds under the two keys of milestone id ms
Pre(st, ms) == [k \in {KeyOf(ms, FALSE), KeyOf(ms, TRUE)} \cap DOMAIN st |-> st[k]]

Call(op, arg, pre, res) == [op |-> op, arg |-> arg, pre |-> pre, ret |-> res.ret, err |-> res.err, delivered |-> res.delivered]

NoResult == QueryResult(Nil, NoError, <<>>)

NoCall == Call("none", Nil, <<>>, NoResult)

ConcInit ==
    /\ mutations = <<>>
    /\ wPc = "idle"
    /\ wOut = Nil
    /\ utxoLock = [writer |-> FALSE, readers |-> 0]
    /\ rdPc = "idle"
    /\ rdOpt = Nil
    /\ rdCursor = <<>>
    /\ rdAcc = LoopState(0, NoError, Nil, <<>>)
    /\ rdDirty = "clean"

\* the callers of RunGarbageCollection
GCCallers == 1..MaxGCCallers

\* the zero time.Time of an event's End
ZeroTime == 0

NoTimes == [start |-> ZeroTime, end |-> ZeroTime, err |-> NoError]

DBInit ==
    /\ cfgPc = "start"
    /\ engine = "none"
    /\ shutdownSignal = FALSE
    /\ wkPc = "waiting"
    /\ closeResult = NoError
    /\ dbLog = <<>>
    /\ supportsCleanup = FALSE
    /\ gcPc = [c \in GCCallers |-> "idle"]
    /\ gcCalls = 0
    /\ garbageCollectionLock = 0
    /\ gcTimes = [c \in GCCallers |-> NoTimes]
    /\ events = <<>>
    /\ clock = 1

\* no milestone cached
NoMilestone == [cached |-> FALSE, Timestamp |-> 0, refs |-> 0]

NotCalled == [called |-> FALSE]

HealthInit ==
    /\ nodeSynced = FALSE
    /\ connectedCount = 0
    /\ latestMilestone = NoMilestone
    /\ now = 0
    /\ health = NotCalled

Init ==
    /\ store = EmptyStore
    /\ last = NoCall
    /\ ConcInit
    /\ DBInit
    /\ HealthInit

(***************************************************************************)
(* The sequential specification: every call runs to completion, and the    *)
(* caller takes its result before the next call is made.                   *)
(***************************************************************************)
\* no call's result is pending
Idle == last.op = "none"

\* the caller has taken the result of the last call
Return ==
    /\ ~Idle
    /\ last' = NoCall
    /\ UNCHANGED <<store, concVars, dbVars, healthVars>>

\* AddTreasuryOutput (lines 136-138): a direct Set on the store
AddTreasuryOutput(to) ==
    /\ Idle
    /\ store' = StoreSet(store, kvStorableKey(to), kvStorableValue(to))
    /\ last' = Call("AddTreasuryOutput", to, Pre(store, to.MilestoneID), NoResult)
    /\ UNCHANGED <<concVars, dbVars, healthVars>>

\* DeleteTreasuryOutput (lines 141-143): a direct Delete on the store
DeleteTreasuryOutput(to) ==
    /\ Idle
    /\ store' = StoreDelete(store, kvStorableKey(to))
    /\ last' = Call("DeleteTreasuryOutput", to, Pre(store, to.MilestoneID), NoResult)
    /\ UNCHANGED <<concVars, dbVars, healthVars>>

\* markTreasuryOutputAsSpent in a batch of its own, committed
MarkSpentCommitted(output) ==
    /\ Idle
    /\ store' = mutationsCommit(markTreasuryOutputAsSpent(output, Batched(store))).store
    /\ last' = Call("markTreasuryOutputAsSpent", output, Pre(store, output.MilestoneID), NoResult)
    /\ UNCHANGED <<concVars, dbVars, healthVars>>

\* markTreasuryOutputAsUnspent in a batch of its own, committed
MarkUnspentCommitted(output) ==
    /\ Idle
    /\ store' = mutationsCommit(markTreasuryOutputAsUnspent(output, Batched(store))).store
    /\ last' = Call("markTreasuryOutputAsUnspent", output, Pre(store, output.MilestoneID), NoResult)
    /\ UNCHANGED <<concVars, dbVars, healthVars>>

TreasuryKeys(st) == {k \in DOMAIN st : HasPrefix(k, TreasuryPrefix)}

Corrupted(st) == {k \in TreasuryKeys(st) : kvStorableLoad(k, st[k]).err # NoError}

\* the environment: a stored value loses its last byte (a torn or foreign write)
CorruptRecord(k) ==
    /\ Idle
    /\ k \in TreasuryKeys(store)
    /\ Corrupted(store) = {}
    /\ store' = StoreSet(store, k, SubSeq(store[k], 1, Len(store[k]) - 1))
    /\ last' = Call("CorruptRecord", Nil, <<>>, NoResult)
    /\ UNCHANGED <<concVars, dbVars, healthVars>>

UnspentKeysOf(st) == {k \in DOMAIN st : HasPrefix(k, UnspentPrefix)}

\* UnspentTreasuryOutput deleting all unspent records but the first when it finds several
UnspentTreasuryOutputRepairing(ioErr) ==
    /\ Idle
    /\ last' = Call("UnspentTreasuryOutput", [ioErr |-> ioErr], <<>>, UnspentTreasuryOutputOn(store, ioErr))
    /\ store' = IF last'.err = ErrMoreThanOneTreasuryOutput
                THEN [k \in (DOMAIN store \ UnspentKeysOf(store)) \cup {Head(IterateKeys(store, UnspentPrefix))} |-> store[k]]
                ELSE store
    /\ UNCHANGED <<concVars, dbVars, healthVars>>

UnspentTreasuryOutput(ioErr) ==
    /\ Idle
    /\ last' = Call("UnspentTreasuryOutput", [ioErr |-> ioErr], <<>>, UnspentTreasuryOutputOn(store, ioErr))
    /\ UNCHANGED <<store, concVars, dbVars, healthVars>>

QueryArg(maxResultCount, stop, ioErr) == [maxResultCount |-> maxResultCount, stop |-> stop, ioErr |-> ioErr]

ForEachTreasuryOutput(maxResultCount, stop, ioErr) ==
    /\ Idle
    /\ ioErr => (maxResultCount = 0 /\ stop = 0)
    /\ last' = Call("ForEachTreasuryOutput", QueryArg(maxResultCount, stop, ioErr), <<>>, ForEachOn(store, TreasuryPrefix, maxResultCount, stop, ioErr))
    /\ UNCHANGED <<store, concVars, dbVars, healthVars>>

ForEachSpentTreasuryOutput(maxResultCount, stop, ioErr) ==
    /\ Idle
    /\ ioErr => (maxResultCount = 0 /\ stop = 0)
    /\ last' = Call("ForEachSpentTreasuryOutput", QueryArg(maxResultCount, stop, ioErr), <<>>, ForEachOn(store, SpentPrefix, maxResultCount, stop, ioErr))
    /\ UNCHANGED <<store, concVars, dbVars, healthVars>>

MaxResultCounts == (-1)..MaxResultCount

\* the consumers: one that never stops, one that stops at its second record
Stops == {0, 2}

Next ==
    \/ \E to \in TreasuryOutput : AddTreasuryOutput(to)
    \/ \E to \in TreasuryOutput : DeleteTreasuryOutput(to)
    \/ \E to \in TreasuryOutput : MarkSpentCommitted(to)
    \/ \E to \in TreasuryOutput : MarkUnspentCommitted(to)
    \/ \E k \in DOMAIN store : CorruptRecord(k)
    \/ \E ioErr \in BOOLEAN : UnspentTreasuryOutput(ioErr)
    \/ \E n \in MaxResultCounts, stop \in Stops, ioErr \in BOOLEAN : ForEachTreasuryOutput(n, stop, ioErr)
    \/ \E n \in MaxResultCounts, stop \in Stops, ioErr \in BOOLEAN : ForEachSpentTreasuryOutput(n, stop, ioErr)
    \/ Return

Spec == Init /\ [][Next]_vars

(***************************************************************************)
(* The concurrent specification: a batch writer applying one treasury      *)
(* transition under the write lock, direct AddTreasuryOutput and           *)
(* DeleteTreasuryOutput calls, and a reader in ForEachTreasuryOutput, each *)
(* advancing one step at a time.                                           *)
(***************************************************************************)
\* the outputs the concurrent calls are made with
ConcOutputs == {t \in TreasuryOutput : t.Amount = 1000}

\* a write takes effect on the store: the reader may hold the read lock and
\* have been handed its first record
DirtyAfterWrite ==
    IF rdDirty = "clean" /\ rdPc = "iterating" /\ rdOpt.readLockLedger /\ rdAcc.i > 0
    THEN "pending"
    ELSE rdDirty

\* the reader is handed a record
DirtyAfterDelivery == IF rdDirty = "pending" THEN "between" ELSE rdDirty

\* the caller of a mark operation: takes the write lock and opens a batch
WriterBegin(kind, output) ==
    /\ wPc = "idle"
    /\ ~utxoLock.writer /\ utxoLock.readers = 0
    /\ utxoLock' = [utxoLock EXCEPT !.writer = TRUE]
    /\ mutations' = Batched(store).batch
    /\ wOut' = [kind |-> kind, output |-> output]
    /\ wPc' = "begun"
    /\ UNCHANGED <<dbVars, healthVars, store, last, rdPc, rdOpt, rdCursor, rdAcc, rdDirty>>

\* lines 89-93 and 100-104: the Delete of the old key
WriterMarkDelete ==
    /\ wPc = "begun"
    /\ LET r == IF wOut.kind = "spent"
                THEN markSpentDelete(wOut.output, [store |-> store, batch |-> mutations])
                ELSE markUnspentDelete(wOut.output, [store |-> store, batch |-> mutations])
       IN /\ store' = r.store
          /\ mutations' = r.batch
          /\ rdDirty' = IF r.store # store THEN DirtyAfterWrite ELSE rdDirty
    /\ wPc' = "deleteQueued"
    /\ UNCHANGED <<dbVars, healthVars, last, wOut, utxoLock, rdPc, rdOpt, rdCursor, rdAcc>>

\* lines 94-95 and 105-106: the Set of the new key
WriterMarkSet ==
    /\ wPc = "deleteQueued"
    /\ LET r == IF wOut.kind = "spent"
                THEN markSpentSet(wOut.output, [store |-> store, batch |-> mutations])
                ELSE markUnspentSet(wOut.output, [store |-> store, batch |-> mutations])
       IN /\ store' = r.store
          /\ mutations' = r.batch
          /\ rdDirty' = IF r.store # store THEN DirtyAfterWrite ELSE rdDirty
    /\ wPc' = "setQueued"
    /\ UNCHANGED <<dbVars, healthVars, last, wOut, utxoLock, rdPc, rdOpt, rdCursor, rdAcc>>

\* the caller commits the batch and releases the write lock
WriterCommit ==
    /\ wPc = "setQueued"
    /\ store' = mutationsCommit([store |-> store, batch |-> mutations]).store
    /\ mutations' = <<>>
    /\ rdDirty' = DirtyAfterWrite
    /\ utxoLock' = [utxoLock EXCEPT !.writer = FALSE]
    /\ wPc' = "idle"
    /\ wOut' = Nil
    /\ UNCHANGED <<dbVars, healthVars, last, rdPc, rdOpt, rdCursor, rdAcc>>

\* AddTreasuryOutput (lines 136-138) called by another goroutine: no lock is taken
AddTreasuryOutputConcurrently(to) ==
    /\ store' = StoreSet(store, kvStorableKey(to), kvStorableValue(to))
    /\ store' # store
    /\ rdDirty' = DirtyAfterWrite
    /\ UNCHANGED <<dbVars, healthVars, last, mutations, wPc, wOut, utxoLock, rdPc, rdOpt, rdCursor, rdAcc>>

\* DeleteTreasuryOutput (lines 141-143) called by another goroutine: no lock is taken
DeleteTreasuryOutputConcurrently(to) ==
    /\ kvStorableKey(to) \in DOMAIN store
    /\ store' = StoreDelete(store, kvStorableKey(to))
    /\ rdDirty' = DirtyAfterWrite
    /\ UNCHANGED <<dbVars, healthVars, last, mutations, wPc, wOut, utxoLock, rdPc, rdOpt, rdCursor, rdAcc>>

\* ForEachTreasuryOutput, lines 180-188: the options, the read lock
ReaderBegin(readLockLedger) ==
    /\ rdPc = "idle"
    /\ readLockLedger => ~utxoLock.writer
    /\ utxoLock' = IF readLockLedger THEN [utxoLock EXCEPT !.readers = @ + 1] ELSE utxoLock
    /\ rdOpt' = [readLockLedger |-> readLockLedger, maxResultCount |-> 0]
    /\ rdCursor' = <<>>
    /\ rdAcc' = LoopState(0, NoError, Nil, <<>>)
    /\ rdDirty' = "clean"
    /\ rdPc' = "iterating"
    /\ UNCHANGED <<dbVars, healthVars, store, last, mutations, wPc, wOut>>

\* the keys under the treasury prefix the iteration has not passed yet
Ahead == {k \in DOMAIN store : HasPrefix(k, TreasuryPrefix) /\ (rdCursor = <<>> \/ LexLess(rdCursor, k))}

\* lines 189-204: Iterate hands the next key to the callback, or ends
ReaderStep ==
    /\ rdPc = "iterating"
    /\ IF Ahead = {}
       THEN /\ rdPc' = "done"
            /\ UNCHANGED <<rdCursor, rdAcc, rdDirty>>
       ELSE LET k == Head(SortedKeys(Ahead))
                acc == ForEachLoop(store, <<k>>, rdOpt.maxResultCount, 0, rdAcc)
            IN /\ rdAcc' = acc
               /\ rdCursor' = k
               /\ rdDirty' = IF Len(acc.delivered) > Len(rdAcc.delivered) THEN DirtyAfterDelivery ELSE rdDirty
               /\ rdPc' = IF acc.innerErr # NoError \/ acc.i = rdAcc.i THEN "done" ELSE "iterating"
    /\ UNCHANGED <<dbVars, healthVars, store, last, mutations, wPc, wOut, utxoLock, rdOpt>>

\* lines 184 and 208: the call returns, the deferred ReadUnlockLedger runs
ReaderReturn ==
    /\ rdPc = "done"
    /\ utxoLock' = IF rdOpt.readLockLedger THEN [utxoLock EXCEPT !.readers = @ - 1] ELSE utxoLock
    /\ rdPc' = "idle"
    /\ rdOpt' = Nil
    /\ rdCursor' = <<>>
    /\ rdAcc' = LoopState(0, NoError, Nil, <<>>)
    /\ rdDirty' = "clean"
    /\ UNCHANGED <<dbVars, healthVars, store, last, mutations, wPc, wOut>>

NextConc ==
    \/ \E to \in ConcOutputs : WriterBegin("spent", to)
    \/ \E to \in ConcOutputs : WriterBegin("unspent", to)
    \/ WriterMarkDelete
    \/ WriterMarkSet
    \/ WriterCommit
    \/ \E to \in ConcOutputs : AddTreasuryOutputConcurrently(to)
    \/ \E to \in ConcOutputs : DeleteTreasuryOutputConcurrently(to)
    \/ \E l \in BOOLEAN : ReaderBegin(l)
    \/ ReaderStep
    \/ ReaderReturn

SpecConc == Init /\ [][NextConc]_vars

(***************************************************************************)
(* The database core plugin (core/database/core.go): configure, the        *)
(* "Close database" worker and RunGarbageCollection.                       *)
(***************************************************************************)
ledgerAndConcVars == <<store, last, mutations, wPc, wOut, utxoLock, rdPc, rdOpt, rdCursor, rdAcc, rdDirty>>

gcVars == <<gcPc, gcCalls, garbageCollectionLock, gcTimes, events, clock>>

\* the engines provide knows, line 59-65
Engines == {"pebble", "bolt", "badger"}

\* provide, lines 51-90: the store of the engine configured, or a panic; cleanup
\* is what DatabaseSupportsCleanup will return for that database
Provide(name, cleanup) ==
    /\ cfgPc = "start"
    /\ name \notin Engines => ~cleanup
    /\ engine' = name
    /\ supportsCleanup' = cleanup
    /\ cfgPc' = IF name \in Engines THEN "provided" ELSE "panicked"
    /\ dbLog' = IF name \in Engines THEN dbLog ELSE Append(dbLog, "Panic")
    /\ UNCHANGED <<ledgerAndConcVars, healthVars, shutdownSignal, wkPc, closeResult, gcVars>>

\* a boolean returned, as the log shows it
Returned(b) == IF b THEN "true" ELSE "false"

\* configure calling UpdateDatabaseVersion whatever IsCorrectDatabaseVersion returned
ConfigureCallsAlwaysUpdating(correct, updated) ==
    <<"IsCorrectDatabaseVersion", Returned(correct)>>
    \o <<"UpdateDatabaseVersion", Returned(updated)>>
    \o (IF correct \/ updated THEN <<"BackgroundWorker">> ELSE <<"Panic">>)

\* the calls configure makes and what they return, lines 95-107
ConfigureCalls(correct, updated) ==
    <<"IsCorrectDatabaseVersion", Returned(correct)>>
    \o (IF correct THEN <<>> ELSE <<"UpdateDatabaseVersion", Returned(updated)>>)
    \o (IF correct \/ updated THEN <<"BackgroundWorker">> ELSE <<"Panic">>)

\* configure, lines 92-108; correct and updated are what IsCorrectDatabaseVersion
\* and UpdateDatabaseVersion return
Configure(correct, updated) ==
    /\ cfgPc = "provided"
    /\ correct => updated
    /\ dbLog' = dbLog \o ConfigureCalls(correct, updated)
    /\ cfgPc' = IF correct \/ updated THEN "configured" ELSE "panicked"
    /\ UNCHANGED <<ledgerAndConcVars, healthVars, engine, supportsCleanup, shutdownSignal, wkPc, closeResult, gcVars>>

\* the daemon signals the shutdown to its running workers
ShutdownSignal ==
    /\ cfgPc = "configured"
    /\ ~shutdownSignal
    /\ shutdownSignal' = TRUE
    /\ dbLog' = Append(dbLog, "shutdownSignal")
    /\ UNCHANGED <<ledgerAndConcVars, healthVars, cfgPc, engine, supportsCleanup, wkPc, closeResult, gcVars>>

\* lines 102-103: the worker has received the signal and marks the database healthy
WorkerMarkHealthy ==
    /\ cfgPc = "configured"
    /\ wkPc = "waiting"
    /\ shutdownSignal
    /\ dbLog' = Append(dbLog, "MarkDatabaseHealthy")
    /\ wkPc' = "healthy"
    /\ UNCHANGED <<ledgerAndConcVars, healthVars, cfgPc, engine, supportsCleanup, shutdownSignal, closeResult, gcVars>>

\* the worker calling closeDatabases without waiting for MarkDatabaseHealthy
WorkerFlushBeforeHealthy(err) ==
    /\ cfgPc = "configured"
    /\ wkPc = "waiting"
    /\ shutdownSignal
    /\ dbLog' = Append(dbLog, "Flush")
    /\ closeResult' = err
    /\ wkPc' = IF err # NoError THEN "done" ELSE "flushed"
    /\ UNCHANGED <<ledgerAndConcVars, healthVars, cfgPc, engine, supportsCleanup, shutdownSignal, gcVars>>

\* lines 105 and 147-149: closeDatabases flushes; a Flush error is returned at once
WorkerFlush(err) ==
    /\ wkPc = "healthy"
    /\ dbLog' = Append(dbLog, "Flush")
    /\ closeResult' = err
    /\ wkPc' = IF err # NoError THEN "done" ELSE "flushed"
    /\ UNCHANGED <<ledgerAndConcVars, healthVars, cfgPc, engine, supportsCleanup, shutdownSignal, gcVars>>

\* lines 151-155: closeDatabases closes and returns Close's error or nil
WorkerClose(err) ==
    /\ wkPc = "flushed"
    /\ dbLog' = Append(dbLog, "Close")
    /\ closeResult' = err
    /\ wkPc' = "done"
    /\ UNCHANGED <<ledgerAndConcVars, healthVars, cfgPc, engine, supportsCleanup, shutdownSignal, gcVars>>

\* line 105: the worker calls closeDatabases as a statement; this is what it
\* logs or passes on of the error returned
WorkerSurfaces(err) == NoError

lifecycleVars == <<cfgPc, engine, supportsCleanup, shutdownSignal, wkPc, closeResult, dbLog>>

\* RunGarbageCollection is called
GCCall(c) ==
    /\ cfgPc = "configured"
    /\ gcPc[c] = "idle"
    /\ gcCalls < MaxGCCalls
    /\ gcCalls' = gcCalls + 1
    /\ gcPc' = [gcPc EXCEPT ![c] = "entered"]
    /\ UNCHANGED <<ledgerAndConcVars, healthVars, lifecycleVars, garbageCollectionLock, gcTimes, events, clock>>

\* RunGarbageCollection without the check of lines 111-113
GCCheckSupportSkipped(c) ==
    /\ gcPc[c] = "entered"
    /\ gcPc' = [gcPc EXCEPT ![c] = "waitLock"]
    /\ UNCHANGED <<ledgerAndConcVars, healthVars, lifecycleVars, gcCalls, garbageCollectionLock, gcTimes, events, clock>>

\* lines 111-113: return when the database does not support cleanup
GCCheckSupport(c) ==
    /\ gcPc[c] = "entered"
    /\ gcPc' = [gcPc EXCEPT ![c] = IF supportsCleanup THEN "waitLock" ELSE "idle"]
    /\ UNCHANGED <<ledgerAndConcVars, healthVars, lifecycleVars, gcCalls, garbageCollectionLock, gcTimes, events, clock>>

\* Lock that does not wait for the holder to unlock
GCLockNotExclusive(c) ==
    /\ gcPc[c] = "waitLock"
    /\ garbageCollectionLock' = c
    /\ gcPc' = [gcPc EXCEPT ![c] = "locked"]
    /\ UNCHANGED <<ledgerAndConcVars, healthVars, lifecycleVars, gcCalls, gcTimes, events, clock>>

\* line 115: garbageCollectionLock.Lock()
GCLock(c) ==
    /\ gcPc[c] = "waitLock"
    /\ garbageCollectionLock = 0
    /\ garbageCollectionLock' = c
    /\ gcPc' = [gcPc EXCEPT ![c] = "locked"]
    /\ UNCHANGED <<ledgerAndConcVars, healthVars, lifecycleVars, gcCalls, gcTimes, events, clock>>

\* lines 120-124: start := time.Now(); the cleanup-started event
GCTriggerStart(c) ==
    /\ gcPc[c] = "locked"
    /\ gcTimes' = [gcTimes EXCEPT ![c].start = clock]
    /\ clock' = clock + 1
    /\ events' = Append(events, [Start |-> clock, End |-> ZeroTime])
    /\ gcPc' = [gcPc EXCEPT ![c] = "started"]
    /\ UNCHANGED <<ledgerAndConcVars, healthVars, lifecycleVars, gcCalls, garbageCollectionLock>>

\* lines 126-128: err := CleanupDatabases(); end := time.Now()
GCCleanup(c, err) ==
    /\ gcPc[c] = "started"
    /\ gcTimes' = [gcTimes EXCEPT ![c].end = clock, ![c].err = err]
    /\ clock' = clock + 1
    /\ gcPc' = [gcPc EXCEPT ![c] = "cleaned"]
    /\ UNCHANGED <<ledgerAndConcVars, healthVars, lifecycleVars, gcCalls, garbageCollectionLock, events>>

\* the cleanup-finished event triggered only when the cleanup did not fail
GCTriggerFinishOnSuccessOnly(c) ==
    /\ gcPc[c] = "cleaned"
    /\ events' = IF gcTimes[c].err \in {NoError, ErrNothingToCleanUp}
                 THEN Append(events, [Start |-> gcTimes[c].start, End |-> gcTimes[c].end])
                 ELSE events
    /\ gcPc' = [gcPc EXCEPT ![c] = "finished"]
    /\ UNCHANGED <<ledgerAndConcVars, healthVars, lifecycleVars, gcCalls, garbageCollectionLock, gcTimes, clock>>

\* lines 130-133: the cleanup-finished event
GCTriggerFinish(c) ==
    /\ gcPc[c] = "cleaned"
    /\ events' = Append(events, [Start |-> gcTimes[c].start, End |-> gcTimes[c].end])
    /\ gcPc' = [gcPc EXCEPT ![c] = "finished"]
    /\ UNCHANGED <<ledgerAndConcVars, healthVars, lifecycleVars, gcCalls, garbageCollectionLock, gcTimes, clock>>

\* lines 135-143 and 116: the warning or the info is logged, the call returns
\* and the deferred Unlock runs
GCReturn(c) ==
    /\ gcPc[c] = "finished"
    /\ garbageCollectionLock' = 0
    /\ gcTimes' = [gcTimes EXCEPT ![c] = NoTimes]
    /\ gcPc' = [gcPc EXCEPT ![c] = "idle"]
    /\ UNCHANGED <<ledgerAndConcVars, healthVars, lifecycleVars, gcCalls, events, clock>>

StoreErrors(e) == {NoError, e}

CleanupErrors == {NoError, ErrNothingToCleanUp, ErrCleanup}

EngineNames == Engines \cup {"sqlite"}

NextDB ==
    \/ \E name \in EngineNames, cleanup \in BOOLEAN : Provide(name, cleanup)
    \/ \E correct, updated \in BOOLEAN : Configure(correct, updated)
    \/ ShutdownSignal
    \/ WorkerMarkHealthy
    \/ \E err \in StoreErrors(ErrFlush) : WorkerFlush(err)
    \/ \E err \in StoreErrors(ErrClose) : WorkerClose(err)
    \/ \E c \in GCCallers : GCCall(c)
    \/ \E c \in GCCallers : GCCheckSupport(c)
    \/ \E c \in GCCallers : GCLock(c)
    \/ \E c \in GCCallers : GCTriggerStart(c)
    \/ \E c \in GCCallers, err \in CleanupErrors : GCCleanup(c, err)
    \/ \E c \in GCCallers : GCTriggerFinish(c)
    \/ \E c \in GCCallers : GCReturn(c)

SpecDB == Init /\ [][NextDB]_vars

(***************************************************************************)
(* The health check of the tangle plugin (IsNodeHealthy).                  *)
(***************************************************************************)
allButHealthVars == <<ledgerAndConcVars, dbVars>>

\* GetCachedMilestoneOrNil hands out a reference, Release gives it back
Retain(ms) == [ms EXCEPT !.refs = @ + 1]

Release(ms) == [ms EXCEPT !.refs = @ - 1]

\* time.Since(t) at the time n
Since(n, t) == n - t

\* IsNodeHealthy without the check of the connected peers
IsNodeHealthyIgnoringPeers(synced, connected, ms, n) ==
    IF ~synced THEN [ret |-> FALSE, ms |-> ms]
    ELSE IF ~ms.cached THEN [ret |-> FALSE, ms |-> ms]
    ELSE [ret |-> Since(n, Retain(ms).Timestamp) < maxAllowedMilestoneAge, ms |-> Release(Retain(ms))]

\* IsNodeHealthy, lines 14-34: what it returns and what it leaves of the cached milestone
IsNodeHealthyOn(synced, connected, ms, n) ==
    IF ~synced THEN [ret |-> FALSE, ms |-> ms]
    ELSE IF connected = 0 THEN [ret |-> FALSE, ms |-> ms]
    ELSE IF ~ms.cached THEN [ret |-> FALSE, ms |-> ms]
    ELSE [ret |-> Since(n, Retain(ms).Timestamp) < maxAllowedMilestoneAge, ms |-> Release(Retain(ms))]

\* the times the clock and the milestones take: around zero and around
\* maxAllowedMilestoneAge
Times == {0, 1} \cup ((maxAllowedMilestoneAge - 1)..(maxAllowedMilestoneAge + MaxSkew))

\* the node gets synced or falls behind
SyncChanges ==
    /\ nodeSynced' = ~nodeSynced
    /\ UNCHANGED <<allButHealthVars, connectedCount, latestMilestone, now, health>>

\* a known peer connects
PeerConnects ==
    /\ connectedCount < MaxPeers
    /\ connectedCount' = connectedCount + 1
    /\ UNCHANGED <<allButHealthVars, nodeSynced, latestMilestone, now, health>>

\* a known peer disconnects
PeerDisconnects ==
    /\ connectedCount > 0
    /\ connectedCount' = connectedCount - 1
    /\ UNCHANGED <<allButHealthVars, nodeSynced, latestMilestone, now, health>>

\* a new latest milestone with timestamp t is stored
MilestoneArrives(t) ==
    /\ latestMilestone' = [cached |-> TRUE, Timestamp |-> t, refs |-> 0]
    /\ latestMilestone' # latestMilestone
    /\ UNCHANGED <<allButHealthVars, nodeSynced, connectedCount, now, health>>

\* the latest milestone index has no milestone stored
MilestoneMissing ==
    /\ latestMilestone.cached
    /\ latestMilestone' = NoMilestone
    /\ UNCHANGED <<allButHealthVars, nodeSynced, connectedCount, now, health>>

\* time passes
Tick(t) ==
    /\ t > now
    /\ now' = t
    /\ UNCHANGED <<allButHealthVars, nodeSynced, connectedCount, latestMilestone, health>>

\* a call of IsNodeHealthy
IsNodeHealthy ==
    /\ LET r == IsNodeHealthyOn(nodeSynced, connectedCount, latestMilestone, now)
       IN /\ health' = [called |-> TRUE, ret |-> r.ret, synced |-> nodeSynced,
                         connected |-> connectedCount, milestone |-> latestMilestone, now |-> now]
          /\ latestMilestone' = r.ms
    /\ UNCHANGED <<allButHealthVars, nodeSynced, connectedCount, now>>

NextHealth ==
    \/ SyncChanges
    \/ PeerConnects
    \/ PeerDisconnects
    \/ \E t \in Times : MilestoneArrives(t)
    \/ MilestoneMissing
    \/ \E t \in Times : Tick(t)
    \/ IsNodeHealthy

SpecHealth == Init /\ [][NextHealth]_vars

(***************************************************************************)
(* Properties of the sequential specification.                             *)
(***************************************************************************)
UnspentKeys(st) == {k \in DOMAIN st : HasPrefix(k, UnspentPrefix)}

SpentKeys(st) == {k \in DOMAIN st : HasPrefix(k, SpentPrefix)}

\* the store holds exactly the record of output t under t's key
Holds(st, t) == kvStorableKey(t) \in DOMAIN st /\ st[kvStorableKey(t)] = kvStorableValue(t)

Unspent(t) == [t EXCEPT !.Spent = FALSE]

Spent(t) == [t EXCEPT !.Spent = TRUE]

\* C1, as claimed: after any sequence of AddTreasuryOutput, DeleteTreasuryOutput,
\* mark-spent and mark-unspent calls with arbitrary milestone ids, at most one
\* record is stored under the unspent-treasury prefix.
C1_SingletonAfterAnySequence == Cardinality(UnspentKeys(store)) <= 1

\* the call of this step writes an unspent record of a milestone id while an
\* unspent record of another milestone id is stored
WritesSecondUnspent ==
    /\ last'.op \in {"AddTreasuryOutput", "markTreasuryOutputAsUnspent"}
    /\ last'.op = "AddTreasuryOutput" => ~last'.arg.Spent
    /\ UnspentKeys(store) \ {KeyOf(last'.arg.MilestoneID, FALSE)} # {}

\* C1, amended: the operations keep at most one unspent record per milestone
\* id, and a call keeps the count of unspent records at 0 or 1 unless it is an
\* AddTreasuryOutput of an unspent output, or a mark-unspent, of a milestone id
\* other than the one of the unspent record stored.
C1_SingletonKeptByDisciplinedCalls ==
    [][(Cardinality(UnspentKeys(store)) <= 1 /\ ~WritesSecondUnspent) => Cardinality(UnspentKeys(store')) <= 1]_vars

\* a mark-unspent of the stored spent record has brought back the only unspent
\* record, beside a spent record of another milestone id
C1_Witness ==
    /\ last.op = "markTreasuryOutputAsUnspent"
    /\ DOMAIN last.pre = {KeyOf(last.arg.MilestoneID, TRUE)}
    /\ Cardinality(UnspentKeys(store)) = 1
    /\ SpentKeys(store) # {}

\* C3: a committed mark-spent on the stored unspent record (M, A) leaves the
\* unspent key of M absent and the spent key of M present with amount A; a
\* committed mark-unspent on the stored spent record (M, A) leaves the spent
\* key absent and the unspent key present with amount A.
C3_KeyTransition ==
    /\ (last.op = "markTreasuryOutputAsSpent" /\ Holds(last.pre, Unspent(last.arg)))
         => /\ KeyOf(last.arg.MilestoneID, FALSE) \notin DOMAIN store
            /\ KeyOf(last.arg.MilestoneID, TRUE) \in DOMAIN store
            /\ store[KeyOf(last.arg.MilestoneID, TRUE)] = WriteUint64(last.arg.Amount)
    /\ (last.op = "markTreasuryOutputAsUnspent" /\ Holds(last.pre, Spent(last.arg)))
         => /\ KeyOf(last.arg.MilestoneID, TRUE) \notin DOMAIN store
            /\ KeyOf(last.arg.MilestoneID, FALSE) \in DOMAIN store
            /\ store[KeyOf(last.arg.MilestoneID, FALSE)] = WriteUint64(last.arg.Amount)

\* mark-spent was called, with an output whose Spent field is already true,
\* on a stored unspent record
C3_Witness ==
    /\ last.op = "markTreasuryOutputAsSpent"
    /\ last.arg.Spent
    /\ Holds(last.pre, Unspent(last.arg))
    /\ DOMAIN last.pre = {KeyOf(last.arg.MilestoneID, FALSE)}

\* C4: when neither Iterate nor a decode fails, UnspentTreasuryOutput returns
\* the record iff exactly one is stored under the unspent prefix, "no treasury
\* output exists" with none, "more than one unspent treasury output exists"
\* with two or more; it never returns a record together with an error.
C4_ExactlyOne ==
    last.op = "UnspentTreasuryOutput" =>
        /\ last.ret = Nil \/ last.err = NoError
        /\ (~last.arg.ioErr /\ Corrupted(store) \cap UnspentKeys(store) = {}) =>
              /\ Cardinality(UnspentKeys(store)) = 0 => (last.ret = Nil /\ last.err = ErrNoTreasuryOutput)
              /\ Cardinality(UnspentKeys(store)) > 1 => (last.ret = Nil /\ last.err = ErrMoreThanOneTreasuryOutput)
              /\ Cardinality(UnspentKeys(store)) = 1 =>
                    /\ last.err = NoError
                    /\ last.ret \in TreasuryOutput
                    /\ ~last.ret.Spent
                    /\ Holds(store, last.ret)
              /\ last.err = NoError => Cardinality(UnspentKeys(store)) = 1

\* UnspentTreasuryOutput was called on a store with two unspent records
C4_Witness ==
    /\ last.op = "UnspentTreasuryOutput"
    /\ ~last.arg.ioErr
    /\ Cardinality(UnspentKeys(store)) = 2
    /\ Corrupted(store) = {}

\* C5: from a store whose only treasury record is the unspent output (M, A),
\* after a committed mark-spent of it UnspentTreasuryOutput fails with "no
\* treasury output exists" and ForEachSpentTreasuryOutput, whatever its
\* bound, delivers exactly the record (M, A, spent).
C5_NormalSpend ==
    (/\ last.op = "markTreasuryOutputAsSpent"
     /\ Holds(last.pre, Unspent(last.arg))
     /\ DOMAIN last.pre = {KeyOf(last.arg.MilestoneID, FALSE)}
     /\ TreasuryKeys(store) \subseteq {KeyOf(last.arg.MilestoneID, FALSE), KeyOf(last.arg.MilestoneID, TRUE)})
    => /\ UnspentTreasuryOutputOn(store, FALSE) = QueryResult(Nil, ErrNoTreasuryOutput, <<>>)
       /\ \A n \in (-1)..MaxResultCount :
             ForEachOn(store, SpentPrefix, n, 0, FALSE) = QueryResult(Nil, NoError, <<Spent(last.arg)>>)

C5_Witness ==
    /\ last.op = "markTreasuryOutputAsSpent"
    /\ Holds(last.pre, Unspent(last.arg))
    /\ TreasuryKeys(store) = {KeyOf(last.arg.MilestoneID, TRUE)}
    /\ DOMAIN last.pre = {KeyOf(last.arg.MilestoneID, FALSE)}
    /\ last.arg.Amount = 1000

IsForEach == last.op \in {"ForEachTreasuryOutput", "ForEachSpentTreasuryOutput"}

LastPrefix == IF last.op = "ForEachTreasuryOutput" THEN TreasuryPrefix ELSE SpentPrefix

PrefixKeys(st, prefix) == {k \in DOMAIN st : HasPrefix(k, prefix)}

\* C6: with maxResultCount = N > 0 the consumer is called at most N times;
\* with N <= 0, a consumer that always returns true and no error, it is called
\* exactly once for every record under the prefix, in key order.
C6_IterationBound ==
    IsForEach =>
        /\ last.arg.maxResultCount > 0 => Len(last.delivered) <= last.arg.maxResultCount
        /\ (/\ last.arg.maxResultCount <= 0
            /\ last.arg.stop = 0
            /\ ~last.arg.ioErr
            /\ Corrupted(store) \cap PrefixKeys(store, LastPrefix) = {})
           => /\ Len(last.delivered) = Cardinality(PrefixKeys(store, LastPrefix))
              /\ \A i \in 1..Len(last.delivered) :
                    /\ Holds(store, last.delivered[i])
                    /\ HasPrefix(kvStorableKey(last.delivered[i]), LastPrefix)
              /\ \A i, j \in 1..Len(last.delivered) :
                    i < j => LexLess(kvStorableKey(last.delivered[i]), kvStorableKey(last.delivered[j]))

\* a bounded iteration that stopped at its bound with records left over
C6_Witness ==
    /\ last.op = "ForEachTreasuryOutput"
    /\ last.arg.maxResultCount = 2
    /\ last.arg.stop = 0
    /\ Len(last.delivered) = 2
    /\ Cardinality(PrefixKeys(store, TreasuryPrefix)) > 2

\* the records stored under the prefix before key c, all well-formed
Before(st, prefix, c) == {k \in PrefixKeys(st, prefix) : LexLess(k, c)}

\* the iteration of the last call reached the bad record c
Reached(c) ==
    /\ ~last.arg.ioErr
    /\ c \in PrefixKeys(store, LastPrefix)
    /\ last.arg.maxResultCount > 0 => Cardinality(Before(store, LastPrefix, c)) < last.arg.maxResultCount
    /\ last.arg.stop > 0 => Cardinality(Before(store, LastPrefix, c)) < last.arg.stop

\* C7: when a stored record fails to decode, the iteration stops at it: the
\* consumer has received exactly the records before it and none after it,
\* the call returns the decode error, and UnspentTreasuryOutput returns no
\* record.
C7_DecodeFailureAborts ==
    /\ IsForEach =>
          \A c \in Corrupted(store) :
              Reached(c) =>
                  /\ last.err = ErrDecode
                  /\ Len(last.delivered) = Cardinality(Before(store, LastPrefix, c))
                  /\ \A i \in 1..Len(last.delivered) : kvStorableKey(last.delivered[i]) \in Before(store, LastPrefix, c)
    /\ last.op = "UnspentTreasuryOutput" =>
          ((~last.arg.ioErr /\ Corrupted(store) \cap UnspentKeys(store) # {})
              => (last.ret = Nil /\ last.err = ErrDecode))

\* an iteration that delivered a record, then met a bad one, with a
\* well-formed record after it
C7_Witness ==
    /\ last.op = "ForEachTreasuryOutput"
    /\ last.err = ErrDecode
    /\ Len(last.delivered) = 1
    /\ \E c \in Corrupted(store) : \E k \in TreasuryKeys(store) : LexLess(c, k)

\* C8: loading the key and the value of any treasury output x gives x back,
\* in all three fields and with no error; so does loading the record
\* AddTreasuryOutput has put in the store.
C8_CodecRoundTrip ==
    /\ \A x \in TreasuryOutput : kvStorableLoad(kvStorableKey(x), kvStorableValue(x)) = LoadResult(NoError, x)
    /\ last.op = "AddTreasuryOutput" =>
          kvStorableLoad(kvStorableKey(last.arg), store[kvStorableKey(last.arg)]) = LoadResult(NoError, last.arg)

C8_Witness ==
    /\ last.op = "AddTreasuryOutput"
    /\ last.arg.Spent
    /\ last.arg.Amount = 16909060
    /\ store[kvStorableKey(last.arg)] = <<4, 3, 2, 1, 0, 0, 0, 0>>

(***************************************************************************)
(* Properties of the concurrent specification.                             *)
(***************************************************************************)
\* exactly one of the two keys of milestone id ms is stored
ExactlyOneKey(st, ms) == (KeyOf(ms, FALSE) \in DOMAIN st) # (KeyOf(ms, TRUE) \in DOMAIN st)

\* the batch writer takes a step of a transition it has begun
WriterStep == wPc # "idle" /\ wPc' # wPc

\* C2: while a mark-spent or mark-unspent transition of milestone id M is
\* applied, no reader holds the read lock, and no step of the transition
\* shows any observer, locked or not, an intermediate store: queueing the
\* Delete and the Set leaves the store as it is, and from a store holding
\* exactly one of the two keys of M every step leads to a store holding
\* exactly one of them (never both, never neither).
C2_NoIntermediateStore ==
    [][WriterStep =>
          /\ utxoLock.writer /\ utxoLock.readers = 0
          /\ wPc' # "idle" => store' = store
          /\ ExactlyOneKey(store, wOut.output.MilestoneID) => ExactlyOneKey(store', wOut.output.MilestoneID)]_vars

\* the Delete of a mark-spent is queued, the Set is not yet, and a reader
\* iterating without the lock has just been handed the old record
C2_Witness ==
    /\ wPc = "deleteQueued"
    /\ wOut.kind = "spent"
    /\ rdPc = "iterating"
    /\ rdCursor = KeyOf(wOut.output.MilestoneID, FALSE)
    /\ KeyOf(wOut.output.MilestoneID, FALSE) \in DOMAIN store
    /\ KeyOf(wOut.output.MilestoneID, TRUE) \notin DOMAIN store

\* C9: a ForEachTreasuryOutput called with readLockLedger holds the read lock
\* until it returns, and no treasury write takes effect on the store between
\* the first and the last record it delivers.
C9_SnapshotUnderReadLock ==
    (rdPc # "idle" /\ rdOpt.readLockLedger) =>
        /\ utxoLock.readers > 0
        /\ rdDirty # "between"

\* the outputs whose records the store holds
StoredOutputs(st) == {t \in TreasuryOutput : Holds(st, t)}

\* the outputs a query delivered
DeliveredBy(r) == {r.delivered[i] : i \in 1..Len(r.delivered)}

ForEachAll(st, prefix) == ForEachOn(st, prefix, 0, 0, FALSE)

\* C16: on every store whose treasury records decode, the iteration over the
\* namespace prefix delivers every stored output once, the spent iteration
\* delivers exactly the outputs stored as spent, UnspentTreasuryOutput answers
\* by the number of outputs stored as unspent, no output is in both parts, and
\* outputs that differ in Spent or MilestoneID have different keys.
C16_PrefixPartition ==
    /\ Corrupted(store) = {} =>
          /\ DeliveredBy(ForEachAll(store, TreasuryPrefix)) = StoredOutputs(store)
          /\ Len(ForEachAll(store, TreasuryPrefix).delivered) = Cardinality(TreasuryKeys(store))
          /\ DeliveredBy(ForEachAll(store, SpentPrefix)) = {t \in StoredOutputs(store) : t.Spent}
          /\ Len(ForEachAll(store, SpentPrefix).delivered) = Cardinality({t \in StoredOutputs(store) : t.Spent})
          /\ LET unspent == {t \in StoredOutputs(store) : ~t.Spent}
                 r == UnspentTreasuryOutputOn(store, FALSE)
             IN /\ Cardinality(unspent) = 0 => r.err = ErrNoTreasuryOutput
                /\ Cardinality(unspent) = 1 => (r.err = NoError /\ r.ret \in unspent)
                /\ Cardinality(unspent) > 1 => r.err = ErrMoreThanOneTreasuryOutput
          /\ DeliveredBy(ForEachAll(store, SpentPrefix)) \cap {t \in StoredOutputs(store) : ~t.Spent} = {}
    /\ \A t, u \in TreasuryOutput :
          (t.Spent # u.Spent \/ t.MilestoneID # u.MilestoneID) => kvStorableKey(t) # kvStorableKey(u)
    /\ \A k \in DOMAIN store : ~(HasPrefix(k, UnspentPrefix) /\ HasPrefix(k, SpentPrefix))

\* the store holds a spent and two unspent outputs
C16_Witness ==
    /\ Corrupted(store) = {}
    /\ Cardinality(SpentKeys(store)) >= 1
    /\ Cardinality(UnspentKeys(store)) >= 2

CommittedSpent(st, t) == mutationsCommit(markTreasuryOutputAsSpent(t, Batched(st))).store

CommittedUnspent(st, t) == mutationsCommit(markTreasuryOutputAsUnspent(t, Batched(st))).store

\* C18: on a store holding the unspent record of t and no spent record of t's
\* milestone id, mark-spent then mark-unspent, each committed, gives the store
\* back; and the same from a spent record with mark-unspent then mark-spent.
C18_MarkInverse ==
    \A t \in TreasuryOutput :
        /\ (Holds(store, Unspent(t)) /\ KeyOf(t.MilestoneID, TRUE) \notin DOMAIN store)
              => CommittedUnspent(CommittedSpent(store, t), t) = store
        /\ (Holds(store, Spent(t)) /\ KeyOf(t.MilestoneID, FALSE) \notin DOMAIN store)
              => CommittedSpent(CommittedUnspent(store, t), t) = store

\* mark-spent has just moved a record, and mark-unspent moves it back
C18_Witness ==
    /\ last.op = "markTreasuryOutputAsSpent"
    /\ Holds(last.pre, Unspent(last.arg))
    /\ KeyOf(last.arg.MilestoneID, TRUE) \notin DOMAIN last.pre
    /\ Holds(store, Spent(last.arg))
    /\ CommittedUnspent(store, last.arg) # store
    /\ Holds(CommittedUnspent(store, last.arg), Unspent(last.arg))

IsQuery(op) == op \in {"UnspentTreasuryOutput", "ForEachTreasuryOutput", "ForEachSpentTreasuryOutput"}

\* C19: a call of UnspentTreasuryOutput, ForEachTreasuryOutput or
\* ForEachSpentTreasuryOutput leaves the store as it was, whatever it returns.
C19_QueriesReadOnly ==
    [][IsQuery(last'.op) => store' = store]_vars

\* UnspentTreasuryOutput has reported more than one unspent output, and both are still stored
C19_Witness ==
    /\ last.op = "UnspentTreasuryOutput"
    /\ last.err = ErrMoreThanOneTreasuryOutput
    /\ Cardinality(UnspentKeys(store)) >= 2

\* the keys of the store st that are not k1 or k2, with their values
Others(st, k1, k2) == [k \in DOMAIN st \ {k1, k2} |-> st[k]]

\* C20: a committed mark-spent of o changes no key other than the two keys of
\* o's milestone id, leaves the caller's o as it was, and ends with the unspent
\* key absent and the spent key holding o.Amount, whether or not an unspent
\* record was stored; symmetrically for mark-unspent.
C20_MarkFrame ==
    [][/\ last'.op = "markTreasuryOutputAsSpent" =>
            LET o == last'.arg
            IN /\ Others(store', KeyOf(o.MilestoneID, FALSE), KeyOf(o.MilestoneID, TRUE))
                    = Others(store, KeyOf(o.MilestoneID, FALSE), KeyOf(o.MilestoneID, TRUE))
               /\ KeyOf(o.MilestoneID, FALSE) \notin DOMAIN store'
               /\ KeyOf(o.MilestoneID, TRUE) \in DOMAIN store'
               /\ store'[KeyOf(o.MilestoneID, TRUE)] = WriteUint64(o.Amount)
               /\ CallerOutputAfterMark(o) = o
       /\ last'.op = "markTreasuryOutputAsUnspent" =>
            LET o == last'.arg
            IN /\ Others(store', KeyOf(o.MilestoneID, FALSE), KeyOf(o.MilestoneID, TRUE))
                    = Others(store, KeyOf(o.MilestoneID, FALSE), KeyOf(o.MilestoneID, TRUE))
               /\ KeyOf(o.MilestoneID, TRUE) \notin DOMAIN store'
               /\ KeyOf(o.MilestoneID, FALSE) \in DOMAIN store'
               /\ store'[KeyOf(o.MilestoneID, FALSE)] = WriteUint64(o.Amount)
               /\ CallerOutputAfterMark(o) = o]_vars

\* mark-unspent was called for a milestone id with no record stored, while a
\* record of another milestone id is stored
C20_Witness ==
    /\ last.op = "markTreasuryOutputAsUnspent"
    /\ DOMAIN last.pre = {}
    /\ KeyOf(last.arg.MilestoneID, FALSE) \in DOMAIN store
    /\ Cardinality(TreasuryKeys(store)) >= 2

(***************************************************************************)
(* Properties of the database core plugin.                                 *)
(***************************************************************************)
\* the places of call f in the log
Places(f) == {i \in 1..Len(dbLog) : dbLog[i] = f}

\* every call f in the log comes after a call g
Follows(f, g) == \A i \in Places(f) : \E j \in Places(g) : j < i

\* C10: MarkDatabaseHealthy, Store.Flush and Store.Close run only after the
\* shutdown signal, MarkDatabaseHealthy before Flush and Flush before Close,
\* and each of them at most once.
C10_ShutdownOrdering ==
    /\ Follows("MarkDatabaseHealthy", "shutdownSignal")
    /\ Follows("Flush", "MarkDatabaseHealthy")
    /\ Follows("Close", "Flush")
    /\ \A f \in {"MarkDatabaseHealthy", "Flush", "Close"} : Cardinality(Places(f)) <= 1
    /\ wkPc = "done" => Places("Flush") # {}

\* the whole sequence has run
C10_Witness ==
    /\ wkPc = "done"
    /\ Places("Close") # {}
    /\ closeResult = NoError

\* C11: whenever closeDatabases has returned an error to the worker (the Flush
\* error, or the Close error when Flush succeeded), the shutdown routine
\* surfaces that error.
C11_ShutdownErrorSurfaced ==
    wkPc = "done" => WorkerSurfaces(closeResult) = closeResult

\* the callers between their cleanup-started and their cleanup-finished event
Collecting == {c \in GCCallers : gcPc[c] \in {"started", "cleaned"}}

\* the callers holding the mutex
InCriticalSection == {c \in GCCallers : gcPc[c] \in {"locked", "started", "cleaned", "finished"}}

IsStarted(e) == e.End = ZeroTime

IsFinished(e) == e.End # ZeroTime

\* the events come in pairs: a started event, then the finished event of the
\* same start; only the last event may be a started event still unanswered
EventsPaired ==
    \A i \in 1..Len(events) :
        IF i % 2 = 1
        THEN /\ IsStarted(events[i])
             /\ i = Len(events) => Collecting # {}
        ELSE /\ IsFinished(events[i])
             /\ events[i].Start = events[i - 1].Start
             /\ events[i].End > events[i].Start

\* C12: at most one call of RunGarbageCollection is between its started and
\* its finished event, it is the holder of the mutex, and the events of
\* different calls do not interleave.
C12_MutualExclusion ==
    /\ Cardinality(Collecting) <= 1
    /\ Cardinality(InCriticalSection) <= 1
    /\ \A c \in InCriticalSection : garbageCollectionLock = c
    /\ EventsPaired
    /\ (Len(events) % 2 = 1) = (Collecting # {})

\* one call collects while another waits for the mutex
C12_Witness ==
    \E c, d \in GCCallers :
        /\ gcPc[c] = "started"
        /\ gcPc[d] = "waitLock"

\* the last two events are the started and the finished event of caller c
LastPairOf(c) ==
    /\ Len(events) >= 2
    /\ events[Len(events) - 1] = [Start |-> gcTimes[c].start, End |-> ZeroTime]
    /\ events[Len(events)] = [Start |-> gcTimes[c].start, End |-> gcTimes[c].end]
    /\ gcTimes[c].start # ZeroTime /\ gcTimes[c].end # ZeroTime

\* C13: on a database that supports cleanup, a call that has triggered its
\* finished event has triggered exactly its started event and then its finished
\* event with the same start, whatever CleanupDatabases returned; it can return,
\* and once every call has returned the mutex is free and each call made has
\* left exactly two events.
C13_Notifications ==
    /\ \A c \in GCCallers : gcPc[c] = "finished" =>
            /\ LastPairOf(c)
            /\ ENABLED GCReturn(c)
    /\ \A c \in GCCallers : gcPc[c] \in {"started", "cleaned"} =>
            /\ Len(events) >= 1
            /\ events[Len(events)] = [Start |-> gcTimes[c].start, End |-> ZeroTime]
    /\ (supportsCleanup /\ \A c \in GCCallers : gcPc[c] = "idle") =>
            /\ Len(events) = 2 * gcCalls
            /\ garbageCollectionLock = 0

\* the second call made has triggered both its events after a failed cleanup
C13_Witness ==
    \E c \in GCCallers :
        /\ gcPc[c] = "finished"
        /\ gcTimes[c].err = ErrCleanup
        /\ LastPairOf(c)
        /\ Len(events) > 2

\* C14: on a database that does not support cleanup no call takes the mutex,
\* runs the cleanup or triggers an event; and RunGarbageCollection never takes
\* the ledger lock.
C14_Unsupported ==
    /\ ~supportsCleanup =>
            /\ \A c \in GCCallers : gcPc[c] \in {"idle", "entered"}
            /\ garbageCollectionLock = 0
            /\ events = <<>>
            /\ clock = 1
    /\ utxoLock = [writer |-> FALSE, readers |-> 0]

\* every call has been made and has returned on a database without cleanup
C14_Witness ==
    /\ cfgPc = "configured"
    /\ ~supportsCleanup
    /\ gcCalls = MaxGCCalls
    /\ \A c \in GCCallers : gcPc[c] = "idle"

(***************************************************************************)
(* Properties of the health check.                                         *)
(***************************************************************************)
\* the age of the milestone the last call read
AgeRead == health.now - health.milestone.Timestamp

\* C15: IsNodeHealthy returns true exactly when the node is synced, at least
\* one known peer is connected, the latest milestone is cached and its age is
\* below 5 minutes; an age of 5 minutes less a second gives true and one of 5
\* minutes and a second gives false; and the call leaves what it reads unchanged.
C15_HealthPredicate ==
    [][health' # health =>
          /\ health'.synced = nodeSynced /\ health'.connected = connectedCount
          /\ health'.milestone = latestMilestone /\ health'.now = now
          /\ health'.ret = (/\ nodeSynced
                            /\ connectedCount >= 1
                            /\ latestMilestone.cached
                            /\ now - latestMilestone.Timestamp < 5 * 60)
          /\ (nodeSynced /\ connectedCount >= 1 /\ latestMilestone.cached) =>
                /\ now - latestMilestone.Timestamp = 5 * 60 - 1 => health'.ret
                /\ now - latestMilestone.Timestamp = 5 * 60 + 1 => ~health'.ret
          /\ UNCHANGED <<nodeSynced, connectedCount, latestMilestone, now>>
          /\ UNCHANGED <<ledgerAndConcVars, dbVars>>]_vars

\* a call has returned true for a milestone 5 minutes less a second old
C15_Witness ==
    /\ health.called
    /\ health.ret
    /\ health.synced /\ health.connected >= 1 /\ health.milestone.cached
    /\ AgeRead = 5 * 60 - 1

\* the calls configure made, with what they returned
ConfigureLog(n) == SubSeq(dbLog, 1, n)

VersionCorrect == <<"IsCorrectDatabaseVersion", "true", "BackgroundWorker">>

VersionUpdated == <<"IsCorrectDatabaseVersion", "false", "UpdateDatabaseVersion", "true", "BackgroundWorker">>

VersionMismatch == <<"IsCorrectDatabaseVersion", "false", "UpdateDatabaseVersion", "false", "Panic">>

\* C17: once configure has run, either the version was correct and no update
\* was tried, or it was not and the update succeeded, and in both cases the
\* worker is registered; or the update failed, configure panicked and the
\* worker is not registered and never runs.
C17_VersionGate ==
    /\ cfgPc = "configured" =>
          /\ \/ Len(dbLog) >= 3 /\ ConfigureLog(3) = VersionCorrect
             \/ Len(dbLog) >= 5 /\ ConfigureLog(5) = VersionUpdated
          /\ Cardinality(Places("BackgroundWorker")) = 1
          /\ Cardinality(Places("UpdateDatabaseVersion")) <= 1
          /\ Places("Panic") = {}
    /\ (cfgPc = "panicked" /\ engine \in Engines) =>
          /\ dbLog = VersionMismatch
          /\ wkPc = "waiting"
          /\ ~shutdownSignal
    /\ cfgPc \in {"start", "provided"} => Places("BackgroundWorker") = {}
    /\ Places("MarkDatabaseHealthy") # {} => Places("BackgroundWorker") # {}

\* the update failed and configure panicked
C17_Witness ==
    /\ cfgPc = "panicked"
    /\ dbLog = VersionMismatch

====
